---- MODULE Spec2Model ----
(***************************************************************************)
(* Wallet engine of gw-currency-wallet: WalletService (RegisterUser,       *)
(* Deposit, Withdraw, ExchangeCurrency) over PostgresStorage.              *)
(*                                                                         *)
(* Every HTTP request runs on its own goroutine; a request slot r of Req   *)
(* is one such call.  A slot runs one call, statement by statement: each   *)
(* action is one store statement (or one Kafka write) together with the    *)
(* Go code that follows it up to the next statement.  Statements issued   *)
(* through s.db run in autocommit mode (READ COMMITTED); ExecuteExchange   *)
(* runs inside one SERIALIZABLE transaction whose writes are buffered in   *)
(* the slot and become visible at COMMIT.                                  *)
(*                                                                         *)
(* Amounts are counted in units of the store's scale, NUMERIC(20, 8):      *)
(* amount 1 is 0.00000001.  A rate is a pair <<num, den>>.                 *)
(***************************************************************************)
EXTENDS Integers, Sequences, FiniteSets, TLC

\* ---------------------------------------------------------------- bounds
MaxNow == 2        \* last tick of the clock
NConc == 2         \* calls that run concurrently (request slots)
NSeq == 3          \* calls one client makes one after the other in SpecSeq
MaxAmount == 2     \* largest amount a call is made with
DefaultCacheRatesTTL == 1   \* the configured TTL of the cache, in ticks
NPartitions == 2   \* partitions of the topic
workers == 2       \* Consumer.workers
batchSize == 2     \* Consumer.batchSize
MaxRetry == 2      \* largest retryAttempts the consumer is configured with
MaxLog == 3        \* messages written to the topic
MaxCrashes == 1    \* times the consumer process is killed and started again
InitBal == 1       \* amount alice holds in each currency in the first state

\* ---------------------------------------------------------------- constants
Currencies == {"EUR", "RUB", "USD"}
\* the currency codes a call is made with: the supported ones and one that is not
RequestCurrencies == Currencies \cup {"GBP"}
CurrencyList == <<"USD", "EUR", "RUB">>
Usernames == {"alice", "bob"}
Emails == {"a@x", "b@x"}
Passwords == {"pw1", "pw2"}
Rates == {<<1, 2>>, <<3, 2>>}
Req == 1..NConc
UserIds == 1..(1 + (IF NSeq > NConc THEN NSeq ELSE NConc))
threshold == MaxAmount

TransactionTypeDeposit == "deposit"
TransactionTypeWithdraw == "withdraw"
TransactionTypeExchange == "exchange"
TransactionStatusCompleted == "completed"

VARIABLES
    users,          \* table users: set of [id, username, email]
    userSeq,        \* last value of the users.id sequence
    balances,       \* table balances: [<<user_id, currency>> of the rows -> amount]
    transactions,   \* table transactions: set of rows; rid names the inserting call
    rowLock,        \* row locks of table balances: [<<user_id, currency>> -> slot or 0]
    published,      \* messages handed to the Kafka writer
    req,            \* the calls: [Req -> record]
    calls,          \* calls that have returned and left their slot
    ratesCache,     \* the RatesCache: [rates, ttl, lastUp]
    now,            \* the clock
    got,            \* what the step just taken returned, when it was a read of the cache
    lastSet,        \* history: the map and the time of the last Set since Clear or construction
    log,            \* the topic: [Partitions -> sequence of messages [key, value]]
    written,        \* the writer's LeastBytes counters: [Partitions -> bytes]
    lastSend,       \* history: the amount and the outcome of the last call of the producer;
                    \* flip changes with every call
    committed,      \* the group's committed offset of each partition (the next one to deliver)
    position,       \* the reader's next offset of each partition
    messages,       \* the channel from the reader to the workers: <<partition, offset>>
    worker,         \* [WorkerIds -> [pc, batch, transfers, attempt, err, final]]: batch is
                    \* the worker's kafkaMessages, transfers its batch of parsed transfers
    store,          \* the collection: <<partition, offset>> of the documents, in insertion order
    messagesFailed,     \* Consumer.messagesFailed
    messagesProcessed,  \* Consumer.messagesProcessed
    retryAttempts,  \* Consumer.retryAttempts
    crashes,        \* number of times the consumer process was killed and started again
    ctxDone,        \* the context handed to Consumer.Start is cancelled
    reader          \* the goroutine of readMessages: [pc, msg]

cacheVars == <<ratesCache, now, got, lastSet>>

walletVars == <<users, userSeq, balances, transactions, rowLock, published, req, calls>>

notifVars == <<log, written, lastSend, committed, position, messages, worker, store,
               messagesFailed, messagesProcessed, retryAttempts, crashes, ctxDone, reader>>

vars == <<walletVars, cacheVars, notifVars>>

\* the writes a transaction has buffered: [currencies written -> new amount]
NoWrites == [c \in {} |-> 0]

\* a nil *UserBalances
NilBalances == [nil |-> TRUE, USD |-> 0, EUR |-> 0, RUB |-> 0]

IdleReq ==
    [op |-> "none", pc |-> "idle", user |-> 0, from |-> "USD", to |-> "USD",
     amount |-> 0, bal |-> 0, rate |-> <<1, 1>>,
     w |-> NoWrites, rowIns |-> FALSE, stale |-> {},
     name |-> "", email |-> "", pw |-> "", hash |-> <<>>, idx |-> 0,
     applied |-> FALSE, result |-> "", at |-> "", tries |-> 0, ret |-> NilBalances,
     rpc |-> FALSE]

\* round-half-away-from-zero of n/d (n >= 0, d > 0) to the store's scale
RoundScale(n, d) == (2 * n + d) \div (2 * d)

\* CHECK (amount >= 0) of table balances
CheckAmount(v) == v >= 0

HasRow(u, c) == <<u, c>> \in DOMAIN balances

ExistingIds == {u.id : u \in users}

\* a call enters slot r: the calls take the slots in order
Arrives(r) == req[r].pc = "idle" /\ \A q \in Req : q < r => req[q].pc # "idle"

\* a call returns res; at keeps the statement it returned from
Finish(rec, res) ==
    [rec EXCEPT !.pc = "done", !.result = res, !.at = rec.pc, !.bal = 0, !.stale = {},
                !.w = NoWrites, !.rowIns = FALSE, !.idx = 0]

\* An autocommit or committing write to rows cs of user u invalidates the
\* snapshot of every open serializable transaction of the same user.
MarkStale(rq, self, u, cs) ==
    [r \in Req |->
        IF r # self /\ rq[r].op = "exchange" /\ rq[r].user = u
           /\ rq[r].pc \in {"ex_debit", "ex_credit", "ex_insert", "ex_commit"}
        THEN [rq[r] EXCEPT !.stale = @ \cup cs]
        ELSE rq[r]]

\* bcrypt.GenerateFromPassword: the stored hash names the algorithm and binds the password
GenerateFromPassword(password) == <<"$2a$", password>>

\* bcrypt.CompareHashAndPassword: nil exactly for the password the hash was made from
CompareHashAndPassword(hash, password) ==
    Len(hash) = 2 /\ hash[1] = "$2a$" /\ hash[2] = password

\* ---------------------------------------------------------------- RatesCache
\* the longest time.Duration: it exceeds every time the clock can measure
MaxDuration == MaxNow + 1

\* time.Time{}: further back than MaxDuration from every reading of the clock
ZeroTime == 0 - MaxDuration - 1

\* Time.Sub: the difference, saturating at the longest duration
Sub(t, u) == IF t - u > MaxDuration THEN MaxDuration ELSE t - u

\* time.Since
Since(t) == Sub(now, t)

TTLs == 0..MaxDuration

\* key := fromCurrency + "_" + toCurrency
RateKey(fromCurrency, toCurrency) == fromCurrency \o "_" \o toCurrency

\* the keys and the maps Set is called with
CacheKeys == {RateKey("USD", "EUR"), RateKey("EUR", "USD")}
RateMaps == UNION {[S -> Rates] : S \in SUBSET CacheKeys}

\* make(map[string]float32), and the nil map
EmptyRates == [k \in {} |-> <<0, 1>>]

NewRatesCache(ttl) == [rates |-> EmptyRates, ttl |-> ttl, lastUp |-> ZeroTime]

\* alias: the map in rates is the cache's own map, not a copy of it;
\* rpc: the exchanger service was called
NoResult == [op |-> "none", valid |-> FALSE, rates |-> EmptyRates, rate |-> <<0, 1>>,
             key |-> "", alias |-> FALSE, rpc |-> FALSE]

NeverSet == [set |-> FALSE, m |-> EmptyRates, at |-> 0]

\* ---------------------------------------------------------------- topic and consumer
Partitions == 0..(NPartitions - 1)
WorkerIds == 1..workers
RetryChoices == 0..MaxRetry

\* json.Marshal of a LargeTransferMessage
Marshal(userID, amount) == [json |-> TRUE, user_id |-> userID, amount |-> amount]

\* a payload that is not JSON
Garbage == [json |-> FALSE, user_id |-> 0, amount |-> 0]

\* Key: []byte(fmt.Sprintf("user_%d", userID))
MessageKey(userID) == "user_" \o ToString(userID)

\* no call of the producer yet
NoSend == [flip |-> FALSE, amount |-> 0, err |-> FALSE]

\* a worker in its select, with the empty batch it starts with
IdleWorker == [pc |-> "select", batch |-> <<>>, transfers |-> <<>>, attempt |-> 0,
               err |-> FALSE, final |-> FALSE]

\* a worker whose processMessages has returned
ExitedWorker == [IdleWorker EXCEPT !.pc = "exited"]

\* no message in the reader's hand
NoMessage == <<0, 0>>

\* the reader in FetchMessage
IdleReader == [pc |-> "fetch", msg |-> NoMessage]

\* a consumer just started
InitConsumer ==
    /\ committed = [p \in Partitions |-> 0]
    /\ position = [p \in Partitions |-> 0]
    /\ messages = <<>>
    /\ worker = [w \in WorkerIds |-> IdleWorker]
    /\ store = <<>>
    /\ messagesFailed = 0
    /\ messagesProcessed = 0
    /\ crashes = 0
    /\ ctxDone = FALSE
    /\ reader = IdleReader

\* the empty topic and a consumer just started on it
InitTopic ==
    /\ log = [p \in Partitions |-> <<>>]
    /\ written = [p \in Partitions |-> 0]
    /\ lastSend = NoSend
    /\ InitConsumer

InitService ==
    /\ ratesCache = NewRatesCache(DefaultCacheRatesTTL)
    /\ now = 0
    /\ got = NoResult
    /\ lastSet = NeverSet
    /\ users = {[id |-> 1, username |-> "alice", email |-> "a@x",
                 hash |-> GenerateFromPassword("pw1")]}
    /\ userSeq = 1
    /\ balances = [k \in {1} \X Currencies |-> InitBal]
    /\ transactions = {}
    /\ rowLock = [k \in UserIds \X RequestCurrencies |-> 0]
    /\ published = {}
    /\ req = [r \in Req |-> IdleReq]
    /\ calls = 0

Init ==
    /\ InitService
    /\ InitTopic
    /\ retryAttempts = MaxRetry

\* ---------------------------------------------------------------- storage
\* a row whose to_amount is the from_amount whatever the rate
TxRowUnconverted(r, rec, type, toAmount) ==
    [rid |-> r, user |-> rec.user, type |-> type,
     from |-> rec.from, to |-> rec.to,
     fromAmount |-> rec.amount, toAmount |-> rec.amount,
     rate |-> rec.rate, status |-> TransactionStatusCompleted]

\* row of table transactions written by call r
TxRow(r, rec, type, toAmount) ==
    [rid |-> r, user |-> rec.user, type |-> type,
     from |-> rec.from, to |-> rec.to,
     fromAmount |-> rec.amount, toAmount |-> toAmount,
     rate |-> rec.rate, status |-> TransactionStatusCompleted]

\* UpdateBalance as a relative update on a table without the CHECK
UpdateBalanceRelative(r, okRec, errRec) ==
    LET rec == req[r]
        k == <<rec.user, rec.from>>
    IN
    \/ /\ rowLock[k] = 0
       /\ HasRow(rec.user, rec.from)
       /\ balances' = [balances EXCEPT ![k] =
                IF rec.op = "withdraw" THEN @ - rec.amount ELSE @ + rec.amount]
       /\ req' = MarkStale([req EXCEPT ![r] = okRec], r, rec.user, {rec.from})
    \/ /\ balances' = balances
       /\ req' = [req EXCEPT ![r] = errRec]

\* UPDATE balances SET amount = $1 WHERE user_id = $3 AND currency = $4 (autocommit):
\* waits for the row lock, is refused by the CHECK, reports zero rows as an error;
\* any other store or context error leaves the table as it is.
UpdateBalance(r, okRec, errRec) ==
    LET rec == req[r] IN
    \/ /\ rowLock[<<rec.user, rec.from>>] = 0
       /\ HasRow(rec.user, rec.from)
       /\ CheckAmount(rec.bal)
       /\ balances' = [balances EXCEPT ![<<rec.user, rec.from>>] = rec.bal]
       /\ req' = MarkStale([req EXCEPT ![r] = okRec], r, rec.user, {rec.from})
    \/ /\ balances' = balances
       /\ req' = [req EXCEPT ![r] = errRec]

\* INSERT INTO transactions ... (autocommit); the caller only logs an error
CreateTransaction(r, type, nextRec) ==
    /\ \/ transactions' = transactions \cup {TxRow(r, req[r], type, req[r].amount)}
       \/ transactions' = transactions
    /\ req' = [req EXCEPT ![r] = nextRec]

\* SendLargeTransferNotification with a caller that returns the publisher's error
SendLargeTransferNotificationPropagated(r, type, nextRec) ==
    LET rec == req[r]
        msg == [rid |-> r, user |-> rec.user, type |-> type,
                from |-> rec.from, to |-> rec.to, amount |-> rec.amount]
    IN
    IF rec.amount < threshold
    THEN /\ published' = published
         /\ req' = [req EXCEPT ![r] = nextRec]
    ELSE \/ /\ published' = published \cup {msg}
            /\ req' = [req EXCEPT ![r] = nextRec]
         \/ /\ published' = published
            /\ req' = [req EXCEPT ![r] = Finish(@, "publish_error")]

\* Producer.SendLargeTransferNotification: below the threshold nothing is sent;
\* a failed write is returned to the caller, which only logs it
SendLargeTransferNotification(r, type, nextRec) ==
    LET rec == req[r]
        msg == [rid |-> r, user |-> rec.user, type |-> type,
                from |-> rec.from, to |-> rec.to, amount |-> rec.amount]
    IN
    /\ IF rec.amount < threshold
       THEN published' = published
       ELSE \/ published' = published \cup {msg}
            \/ published' = published
    /\ req' = [req EXCEPT ![r] = nextRec]

\* the UserBalances GetUserBalances builds from the rows GetAllBalances returns:
\* a zero-valued struct, each field set from the row of its currency
UserBalancesOf(u) ==
    LET amount(c) == IF HasRow(u, c) THEN balances[<<u, c>>] ELSE 0
    IN [nil |-> FALSE, USD |-> amount("USD"), EUR |-> amount("EUR"), RUB |-> amount("RUB")]

\* WalletService.GetUserBalances: SELECT of the user's rows (autocommit)
GetUserBalances(r) ==
    \/ req' = [req EXCEPT ![r] = Finish([@ EXCEPT !.ret = UserBalancesOf(req[r].user)], "ok")]
    \/ req' = [req EXCEPT ![r] = Finish(@, "store_error")]

\* GET /balance: GetUserBalances called on its own
GetUserBalancesCall(r) ==
    /\ Arrives(r)
    /\ \E u \in ExistingIds :
          req' = [req EXCEPT ![r] =
                    [IdleReq EXCEPT !.op = "balances", !.pc = "bal_get", !.user = u]]
    /\ UNCHANGED <<users, userSeq, balances, transactions, rowLock, published, calls, cacheVars, notifVars>>

GetUserBalancesReturn(r) ==
    /\ req[r].pc = "bal_get"
    /\ GetUserBalances(r)
    /\ UNCHANGED <<users, userSeq, balances, transactions, rowLock, published, calls, cacheVars, notifVars>>

GetBalance(r) ==
    \/ GetUserBalancesCall(r)
    \/ GetUserBalancesReturn(r)

\* ---------------------------------------------------------------- Deposit
DepositCall(r) ==
    /\ Arrives(r)
    /\ \E u \in ExistingIds, c \in RequestCurrencies, a \in 0..MaxAmount :
          LET rec == [IdleReq EXCEPT !.op = "deposit", !.user = u,
                                     !.from = c, !.to = c, !.amount = a]
          IN req' = [req EXCEPT ![r] =
                        IF a <= 0 THEN Finish(rec, "invalid_amount")
                                  ELSE [rec EXCEPT !.pc = "dep_get"]]
    /\ UNCHANGED <<users, userSeq, balances, transactions, rowLock, published, calls, cacheVars, notifVars>>

DepositGetBalance(r) ==
    LET rec == req[r] IN
    /\ rec.pc = "dep_get"
    /\ \/ /\ HasRow(rec.user, rec.from)
          /\ req' = [req EXCEPT ![r] =
                [rec EXCEPT !.pc = "dep_update",
                            !.bal = balances[<<rec.user, rec.from>>] + rec.amount]]
       \/ req' = [req EXCEPT ![r] = Finish(rec, "store_error")]
    /\ UNCHANGED <<users, userSeq, balances, transactions, rowLock, published, calls, cacheVars, notifVars>>

DepositUpdateBalance(r) ==
    LET rec == req[r] IN
    /\ rec.pc = "dep_update"
    /\ UpdateBalance(r, [rec EXCEPT !.pc = "dep_tx", !.applied = TRUE],
                        Finish(rec, "store_error"))
    /\ UNCHANGED <<users, userSeq, transactions, rowLock, published, calls, cacheVars, notifVars>>

DepositCreateTransaction(r) ==
    /\ req[r].pc = "dep_tx"
    /\ CreateTransaction(r, TransactionTypeDeposit, [req[r] EXCEPT !.pc = "dep_notify"])
    /\ UNCHANGED <<users, userSeq, balances, rowLock, published, calls, cacheVars, notifVars>>

DepositNotify(r) ==
    /\ req[r].pc = "dep_notify"
    /\ SendLargeTransferNotification(r, "deposit", [req[r] EXCEPT !.pc = "dep_balances"])
    /\ UNCHANGED <<users, userSeq, balances, transactions, rowLock, calls, cacheVars, notifVars>>

DepositReturn(r) ==
    /\ req[r].pc = "dep_balances"
    /\ GetUserBalances(r)
    /\ UNCHANGED <<users, userSeq, balances, transactions, rowLock, published, calls, cacheVars, notifVars>>

Deposit(r) ==
    \/ DepositCall(r)
    \/ DepositGetBalance(r)
    \/ DepositUpdateBalance(r)
    \/ DepositCreateTransaction(r)
    \/ DepositNotify(r)
    \/ DepositReturn(r)

\* ---------------------------------------------------------------- Withdraw
WithdrawCall(r) ==
    /\ Arrives(r)
    /\ \E u \in ExistingIds, c \in RequestCurrencies, a \in 0..MaxAmount :
          LET rec == [IdleReq EXCEPT !.op = "withdraw", !.user = u,
                                     !.from = c, !.to = c, !.amount = a]
          IN req' = [req EXCEPT ![r] =
                        IF a <= 0 THEN Finish(rec, "invalid_amount")
                                  ELSE [rec EXCEPT !.pc = "wd_get"]]
    /\ UNCHANGED <<users, userSeq, balances, transactions, rowLock, published, calls, cacheVars, notifVars>>

\* a funds test that lets a withdrawal of one unit more than the balance through
InsufficientFundsOffByOne(balance, amount) == balance + 1 < amount

\* the funds test of Withdraw on the amount GetBalance returned
InsufficientFunds(balance, amount) == balance < amount

WithdrawGetBalance(r) ==
    LET rec == req[r] IN
    /\ rec.pc = "wd_get"
    /\ \/ /\ HasRow(rec.user, rec.from)
          /\ req' = [req EXCEPT ![r] =
                IF InsufficientFunds(balances[<<rec.user, rec.from>>], rec.amount)
                THEN Finish(rec, "insufficient_funds")
                ELSE [rec EXCEPT !.pc = "wd_update",
                                 !.bal = balances[<<rec.user, rec.from>>] - rec.amount]]
       \/ req' = [req EXCEPT ![r] = Finish(rec, "store_error")]
    /\ UNCHANGED <<users, userSeq, balances, transactions, rowLock, published, calls, cacheVars, notifVars>>

WithdrawUpdateBalance(r) ==
    LET rec == req[r] IN
    /\ rec.pc = "wd_update"
    /\ UpdateBalance(r, [rec EXCEPT !.pc = "wd_tx", !.applied = TRUE],
                        Finish(rec, "store_error"))
    /\ UNCHANGED <<users, userSeq, transactions, rowLock, published, calls, cacheVars, notifVars>>

WithdrawCreateTransaction(r) ==
    /\ req[r].pc = "wd_tx"
    /\ CreateTransaction(r, TransactionTypeWithdraw, [req[r] EXCEPT !.pc = "wd_notify"])
    /\ UNCHANGED <<users, userSeq, balances, rowLock, published, calls, cacheVars, notifVars>>

WithdrawNotify(r) ==
    /\ req[r].pc = "wd_notify"
    /\ SendLargeTransferNotification(r, "withdraw", [req[r] EXCEPT !.pc = "wd_balances"])
    /\ UNCHANGED <<users, userSeq, balances, transactions, rowLock, calls, cacheVars, notifVars>>

WithdrawReturn(r) ==
    /\ req[r].pc = "wd_balances"
    /\ GetUserBalances(r)
    /\ UNCHANGED <<users, userSeq, balances, transactions, rowLock, published, calls, cacheVars, notifVars>>

Withdraw(r) ==
    \/ WithdrawCall(r)
    \/ WithdrawGetBalance(r)
    \/ WithdrawUpdateBalance(r)
    \/ WithdrawCreateTransaction(r)
    \/ WithdrawNotify(r)
    \/ WithdrawReturn(r)

\* ---------------------------------------------------------------- ExchangeCurrency
\* ExchangeCurrency without its two argument tests
ExchangeCallUnchecked(r) ==
    /\ Arrives(r)
    /\ \E u \in ExistingIds, f \in RequestCurrencies, t \in RequestCurrencies, a \in 0..MaxAmount :
          req' = [req EXCEPT ![r] =
                    [IdleReq EXCEPT !.op = "exchange", !.user = u, !.from = f, !.to = t,
                                    !.amount = a, !.pc = "ex_rate"]]
    /\ UNCHANGED <<users, userSeq, balances, transactions, rowLock, published, calls, cacheVars, notifVars>>

ExchangeCall(r) ==
    /\ Arrives(r)
    /\ \E u \in ExistingIds, f \in RequestCurrencies, t \in RequestCurrencies, a \in 0..MaxAmount :
          LET rec == [IdleReq EXCEPT !.op = "exchange", !.user = u,
                                     !.from = f, !.to = t, !.amount = a]
          IN req' = [req EXCEPT ![r] =
                        IF a <= 0 THEN Finish(rec, "invalid_amount")
                        ELSE IF f = t THEN Finish(rec, "same_currency")
                        ELSE [rec EXCEPT !.pc = "ex_rate"]]
    /\ UNCHANGED <<users, userSeq, balances, transactions, rowLock, published, calls, cacheVars, notifVars>>

\* ExchangeGetRate that asks the exchanger service without looking into the cache
ExchangeGetRateAlwaysRPC(r) ==
    /\ req[r].pc = "ex_rate"
    /\ \/ \E rt \in Rates :
             req' = [req EXCEPT ![r] = [@ EXCEPT !.pc = "ex_select", !.rate = rt,
                                                  !.tries = 1, !.rpc = TRUE]]
       \/ req' = [req EXCEPT ![r] = Finish([@ EXCEPT !.rpc = TRUE], "rate_error")]
    /\ UNCHANGED <<users, userSeq, balances, transactions, rowLock, published, calls, cacheVars, notifVars>>

\* rate, ok := s.ratesCache.GetRate(from, to); if !ok, the rate of the pair is asked
\* from the exchanger service (rpc), whose error ends the call.  The cache is only read.
ExchangeGetRate(r) ==
    LET rec == req[r]
        key == RateKey(rec.from, rec.to)
        ok == /\ ~(Since(ratesCache.lastUp) > ratesCache.ttl)
              /\ key \in DOMAIN ratesCache.rates
    IN
    /\ rec.pc = "ex_rate"
    /\ IF ok
       THEN req' = [req EXCEPT ![r] = [rec EXCEPT !.pc = "ex_select", !.tries = 1,
                                                  !.rate = ratesCache.rates[key]]]
       ELSE \/ \E rt \in Rates :
                 req' = [req EXCEPT ![r] = [rec EXCEPT !.pc = "ex_select", !.rate = rt,
                                                      !.tries = 1, !.rpc = TRUE]]
            \/ req' = [req EXCEPT ![r] = Finish([rec EXCEPT !.rpc = TRUE], "rate_error")]
    /\ UNCHANGED <<users, userSeq, balances, transactions, rowLock, published, calls, cacheVars, notifVars>>

\* exchangedAmount := float64(rate) * amount, as the store keeps it (scale 8)
ExchangedAmount(rate, amount) == RoundScale(rate[1] * amount, rate[2])

\* locks of table balances without those of transaction r (COMMIT, ROLLBACK)
ReleaseLocks(r) ==
    [k \in DOMAIN rowLock |-> IF rowLock[k] = r THEN 0 ELSE rowLock[k]]

\* BeginTx(serializable); SELECT amount ... FOR UPDATE of the source row; funds test.
\* The statement takes the transaction's snapshot and the row lock of the source row.
ExecuteExchangeSelect(r) ==
    LET rec == req[r] IN
    /\ rec.pc = "ex_select"
    /\ rowLock[<<rec.user, rec.from>>] = 0
    /\ HasRow(rec.user, rec.from)
    /\ IF balances[<<rec.user, rec.from>>] < rec.amount
       THEN /\ req' = [req EXCEPT ![r] = Finish(rec, "insufficient_funds")]
            /\ rowLock' = rowLock
       ELSE /\ req' = [req EXCEPT ![r] = [rec EXCEPT !.pc = "ex_debit", !.stale = {}]]
            /\ rowLock' = [rowLock EXCEPT ![<<rec.user, rec.from>>] = r]
    /\ UNCHANGED <<users, userSeq, balances, transactions, published, calls, cacheVars, notifVars>>

\* ExecuteExchangeDebit issued on the connection pool instead of the transaction
ExecuteExchangeDebitOutsideTx(r) ==
    LET rec == req[r] IN
    /\ rec.pc = "ex_debit"
    /\ CheckAmount(balances[<<rec.user, rec.from>>] - rec.amount)
    /\ balances' = [balances EXCEPT ![<<rec.user, rec.from>>] = @ - rec.amount]
    /\ req' = [req EXCEPT ![r] = [rec EXCEPT !.pc = "ex_credit"]]
    /\ UNCHANGED <<users, userSeq, transactions, rowLock, published, calls, cacheVars, notifVars>>

\* UPDATE balances SET amount = amount - $1 of the source row, inside the transaction
ExecuteExchangeDebit(r) ==
    LET rec == req[r] IN
    /\ rec.pc = "ex_debit"
    /\ CheckAmount(balances[<<rec.user, rec.from>>] - rec.amount)
    /\ req' = [req EXCEPT ![r] =
            [rec EXCEPT !.pc = "ex_credit",
                        !.w = rec.from :> (balances[<<rec.user, rec.from>>] - rec.amount)]]
    /\ UNCHANGED <<users, userSeq, balances, transactions, rowLock, published, calls, cacheVars, notifVars>>

\* UPDATE balances SET amount = amount + $1 of the target row, inside the transaction:
\* takes the row lock of the target row (waits for it); a row changed by a commit
\* after the snapshot cannot be updated (serialization failure, see ExecuteExchangeFail);
\* a missing row is zero rows affected, which the code does not look at.
ExecuteExchangeCredit(r) ==
    LET rec == req[r] IN
    /\ rec.pc = "ex_credit"
    /\ IF HasRow(rec.user, rec.to)
       THEN /\ rowLock[<<rec.user, rec.to>>] = 0
            /\ rec.to \notin rec.stale
            /\ rowLock' = [rowLock EXCEPT ![<<rec.user, rec.to>>] = r]
            /\ req' = [req EXCEPT ![r] =
                    [rec EXCEPT !.pc = "ex_insert",
                                !.w = @ @@ (rec.to :> (balances[<<rec.user, rec.to>>]
                                        + ExchangedAmount(rec.rate, rec.amount)))]]
       ELSE /\ rowLock' = rowLock
            /\ req' = [req EXCEPT ![r] = [rec EXCEPT !.pc = "ex_insert"]]
    /\ UNCHANGED <<users, userSeq, balances, transactions, published, calls, cacheVars, notifVars>>

\* INSERT INTO transactions ... inside the transaction
ExecuteExchangeInsert(r) ==
    /\ req[r].pc = "ex_insert"
    /\ req' = [req EXCEPT ![r] = [@ EXCEPT !.pc = "ex_commit", !.rowIns = TRUE]]
    /\ UNCHANGED <<users, userSeq, balances, transactions, rowLock, published, calls, cacheVars, notifVars>>

\* tx.Commit(): the buffered writes become visible together, the locks are released
ExecuteExchangeCommit(r) ==
    LET rec == req[r] IN
    /\ rec.pc = "ex_commit"
    /\ balances' = [k \in DOMAIN balances |->
            IF k[1] = rec.user /\ k[2] \in DOMAIN rec.w THEN rec.w[k[2]]
            ELSE balances[k]]
    /\ transactions' = IF rec.rowIns
            THEN transactions \cup
                 {TxRow(r, rec, TransactionTypeExchange, ExchangedAmount(rec.rate, rec.amount))}
            ELSE transactions
    /\ rowLock' = ReleaseLocks(r)
    /\ req' = MarkStale([req EXCEPT ![r] =
                            [rec EXCEPT !.pc = "ex_notify", !.applied = TRUE,
                                        !.w = NoWrites,
                                        !.rowIns = FALSE, !.stale = {}]],
                        r, rec.user, {rec.from, rec.to})
    /\ UNCHANGED <<users, userSeq, published, calls, cacheVars, notifVars>>

\* any statement of the transaction (BeginTx ... Commit) returns an error: context
\* cancelled, connection lost, serialization failure, deadlock victim.  The deferred
\* tx.Rollback() drops the buffered writes and releases the locks.
ExecuteExchangeFail(r) ==
    /\ req[r].pc \in {"ex_select", "ex_debit", "ex_credit", "ex_insert", "ex_commit"}
    /\ req' = [req EXCEPT ![r] = Finish(@, "store_error")]
    /\ rowLock' = ReleaseLocks(r)
    /\ UNCHANGED <<users, userSeq, balances, transactions, published, calls, cacheVars, notifVars>>

\* The UPDATE of the target row finds a row that a commit changed after the
\* transaction's snapshot: the store reports a serialization failure (40001).
\* ExecuteExchange returns it and ExchangeCurrency returns it to its caller.
ExecuteExchangeSerializationFailure(r) ==
    LET rec == req[r] IN
    /\ rec.pc = "ex_credit"
    /\ HasRow(rec.user, rec.to)
    /\ rowLock[<<rec.user, rec.to>>] = 0
    /\ rec.to \in rec.stale
    /\ req' = [req EXCEPT ![r] = Finish(rec, "serialization_failure")]
    /\ rowLock' = ReleaseLocks(r)
    /\ UNCHANGED <<users, userSeq, balances, transactions, published, calls, cacheVars, notifVars>>

ExchangeNotify(r) ==
    /\ req[r].pc = "ex_notify"
    /\ SendLargeTransferNotification(r, "exchange", [req[r] EXCEPT !.pc = "ex_balances"])
    /\ UNCHANGED <<users, userSeq, balances, transactions, rowLock, calls, cacheVars, notifVars>>

\* GetUserBalances after the exchange: its error is dropped, the call still succeeds
ExchangeReturn(r) ==
    /\ req[r].pc = "ex_balances"
    /\ \/ req' = [req EXCEPT ![r] =
                Finish([@ EXCEPT !.ret = UserBalancesOf(req[r].user)], "ok")]
       \/ req' = [req EXCEPT ![r] = Finish(@, "ok_no_balances")]
    /\ UNCHANGED <<users, userSeq, balances, transactions, rowLock, published, calls, cacheVars, notifVars>>

\* the statements of ExchangeCurrency that need no other call
ExchangeCurrencyAlone(r) ==
    \/ ExchangeCall(r)
    \/ ExchangeGetRate(r)
    \/ ExecuteExchangeSelect(r)
    \/ ExecuteExchangeDebit(r)
    \/ ExecuteExchangeCredit(r)
    \/ ExecuteExchangeInsert(r)
    \/ ExecuteExchangeCommit(r)
    \/ ExecuteExchangeFail(r)
    \/ ExchangeNotify(r)
    \/ ExchangeReturn(r)

ExchangeCurrency(r) ==
    \/ ExchangeCurrencyAlone(r)
    \/ ExecuteExchangeSerializationFailure(r)

\* ---------------------------------------------------------------- RegisterUser
RegisterUserCall(r) ==
    /\ Arrives(r)
    /\ \E n \in Usernames, e \in Emails, p \in Passwords :
          req' = [req EXCEPT ![r] =
                    [IdleReq EXCEPT !.op = "register", !.pc = "reg_name",
                                    !.name = n, !.email = e, !.pw = p]]
    /\ UNCHANGED <<users, userSeq, balances, transactions, rowLock, published, calls, cacheVars, notifVars>>

\* existingUser, _ := GetUserByUsername: a store error reads as "no such user"
RegisterCheckUsername(r) ==
    LET rec == req[r] IN
    /\ rec.pc = "reg_name"
    /\ \/ /\ \E u \in users : u.username = rec.name
          /\ req' = [req EXCEPT ![r] = Finish(rec, "username_exists")]
       \/ /\ \A u \in users : u.username # rec.name
          /\ req' = [req EXCEPT ![r] = [rec EXCEPT !.pc = "reg_email"]]
       \/ req' = [req EXCEPT ![r] = [rec EXCEPT !.pc = "reg_email"]]
    /\ UNCHANGED <<users, userSeq, balances, transactions, rowLock, published, calls, cacheVars, notifVars>>

RegisterCheckEmail(r) ==
    LET rec == req[r] IN
    /\ rec.pc = "reg_email"
    /\ \/ /\ \E u \in users : u.email = rec.email
          /\ req' = [req EXCEPT ![r] = Finish(rec, "email_exists")]
       \/ /\ \A u \in users : u.email # rec.email
          /\ req' = [req EXCEPT ![r] =
                [rec EXCEPT !.pc = "reg_create", !.hash = GenerateFromPassword(rec.pw)]]
       \/ req' = [req EXCEPT ![r] =
                [rec EXCEPT !.pc = "reg_create", !.hash = GenerateFromPassword(rec.pw)]]
    /\ UNCHANGED <<users, userSeq, balances, transactions, rowLock, published, calls, cacheVars, notifVars>>

\* CreateUser on a table users without the UNIQUE constraints
CreateUserNoUnique(r) ==
    LET rec == req[r] IN
    /\ rec.pc = "reg_create"
    /\ \/ /\ userSeq' = userSeq + 1
          /\ users' = users \cup {[id |-> userSeq + 1, username |-> rec.name,
                                   email |-> rec.email, hash |-> rec.hash]}
          /\ req' = [req EXCEPT ![r] =
                        [rec EXCEPT !.pc = "reg_balance", !.user = userSeq + 1, !.idx = 1]]
       \/ /\ UNCHANGED <<users, userSeq>>
          /\ req' = [req EXCEPT ![r] = Finish(rec, "store_error")]
    /\ UNCHANGED <<balances, transactions, rowLock, published, calls, cacheVars, notifVars>>

\* CreateUser: INSERT INTO users ... RETURNING id (username and email are UNIQUE)
CreateUser(r) ==
    LET rec == req[r]
        taken == \E u \in users : u.username = rec.name \/ u.email = rec.email
    IN
    /\ rec.pc = "reg_create"
    /\ \/ /\ ~taken
          /\ userSeq' = userSeq + 1
          /\ users' = users \cup {[id |-> userSeq + 1, username |-> rec.name,
                                   email |-> rec.email, hash |-> rec.hash]}
          /\ req' = [req EXCEPT ![r] =
                        [rec EXCEPT !.pc = "reg_balance", !.user = userSeq + 1, !.idx = 1]]
       \/ /\ taken
          /\ userSeq' = userSeq + 1
          /\ users' = users
          /\ req' = [req EXCEPT ![r] = Finish(rec, "store_error")]
       \/ /\ UNCHANGED <<users, userSeq>>
          /\ req' = [req EXCEPT ![r] = Finish(rec, "store_error")]
    /\ UNCHANGED <<balances, transactions, rowLock, published, calls, cacheVars, notifVars>>

\* CreateUser, the loop over the currencies: CreateBalance inserts one row per turn
CreateBalance(r) ==
    LET rec == req[r] IN
    /\ rec.pc = "reg_balance"
    /\ \/ /\ balances' = balances @@ (<<rec.user, CurrencyList[rec.idx]>> :> 0)
          /\ req' = [req EXCEPT ![r] =
                        IF rec.idx = Len(CurrencyList) THEN Finish(rec, "ok")
                        ELSE [rec EXCEPT !.idx = @ + 1]]
       \/ /\ balances' = balances
          /\ req' = [req EXCEPT ![r] = Finish(rec, "store_error")]
    /\ UNCHANGED <<users, userSeq, transactions, rowLock, published, calls, cacheVars, notifVars>>

RegisterUser(r) ==
    \/ RegisterUserCall(r)
    \/ RegisterCheckUsername(r)
    \/ RegisterCheckEmail(r)
    \/ CreateUser(r)
    \/ CreateBalance(r)

\* ---------------------------------------------------------------- AuthenticateUser
AuthenticateUserCall(r) ==
    /\ Arrives(r)
    /\ \E n \in Usernames, p \in Passwords :
          req' = [req EXCEPT ![r] =
                    [IdleReq EXCEPT !.op = "authenticate", !.pc = "auth_get",
                                    !.name = n, !.pw = p]]
    /\ UNCHANGED <<users, userSeq, balances, transactions, rowLock, published, calls, cacheVars, notifVars>>

\* GetUserByUsername with the store's error handed to the caller as it is
AuthenticateGetUserPlainError(r) ==
    LET rec == req[r] IN
    /\ rec.pc = "auth_get"
    /\ \/ \E u \in users :
             /\ u.username = rec.name
             /\ req' = [req EXCEPT ![r] =
                    [rec EXCEPT !.pc = "auth_compare", !.user = u.id, !.hash = u.hash]]
       \/ /\ \A u \in users : u.username # rec.name
          /\ req' = [req EXCEPT ![r] = Finish(rec, "user not found")]
       \/ req' = [req EXCEPT ![r] = Finish(rec, "failed to get user")]
    /\ UNCHANGED <<users, userSeq, balances, transactions, rowLock, published, calls, cacheVars, notifVars>>

\* user, err := GetUserByUsername: no row and a store error both give the one message
AuthenticateGetUser(r) ==
    LET rec == req[r] IN
    /\ rec.pc = "auth_get"
    /\ \/ \E u \in users :
             /\ u.username = rec.name
             /\ req' = [req EXCEPT ![r] =
                    [rec EXCEPT !.pc = "auth_compare", !.user = u.id, !.hash = u.hash]]
       \/ /\ \A u \in users : u.username # rec.name
          /\ req' = [req EXCEPT ![r] = Finish(rec, "invalid username or password")]
       \/ req' = [req EXCEPT ![r] = Finish(rec, "invalid username or password")]
    /\ UNCHANGED <<users, userSeq, balances, transactions, rowLock, published, calls, cacheVars, notifVars>>

AuthenticateCompare(r) ==
    LET rec == req[r] IN
    /\ rec.pc = "auth_compare"
    /\ req' = [req EXCEPT ![r] =
            IF CompareHashAndPassword(rec.hash, rec.pw)
            THEN Finish(rec, "ok")
            ELSE Finish(rec, "invalid username or password")]
    /\ UNCHANGED <<users, userSeq, balances, transactions, rowLock, published, calls, cacheVars, notifVars>>

AuthenticateUser(r) ==
    \/ AuthenticateUserCall(r)
    \/ AuthenticateGetUser(r)
    \/ AuthenticateCompare(r)

\* one statement of the call in slot r
Step(r) ==
    \/ RegisterUser(r) \/ AuthenticateUser(r) \/ GetBalance(r)
    \/ Deposit(r) \/ Withdraw(r) \/ ExchangeCurrency(r)

\* NConc calls, each on its own goroutine, interleaved statement by statement
Next == \E r \in Req : Step(r)

Spec == Init /\ [][Next]_vars

\* The call in slot r has returned and the client makes its next call.  The rows and
\* messages the finished call wrote are never read or changed again by the engine;
\* they leave the model's view together with the call.
NextCall(r) ==
    /\ req[r].pc = "done"
    /\ calls + 1 < NSeq
    /\ calls' = calls + 1
    /\ req' = [req EXCEPT ![r] = IdleReq]
    /\ transactions' = {t \in transactions : t.rid # r}
    /\ published' = {m \in published : m.rid # r}
    /\ UNCHANGED <<users, userSeq, balances, rowLock, cacheVars, notifVars>>

\* NSeq calls of one client, one after the other: no commit of another call can fall
\* between the statements of a transaction
NextSeq ==
    \/ RegisterUser(1) \/ AuthenticateUser(1) \/ GetBalance(1)
    \/ Deposit(1) \/ Withdraw(1) \/ ExchangeCurrencyAlone(1)
    \/ NextCall(1)

SpecSeq == Init /\ [][NextSeq]_vars

\* ---------------------------------------------------------------- RatesCache, operations
\* Get with an inclusive end of the TTL
GetExclusive ==
    /\ got' = IF Since(ratesCache.lastUp) >= ratesCache.ttl
              THEN [NoResult EXCEPT !.op = "Get"]
              ELSE [NoResult EXCEPT !.op = "Get", !.valid = TRUE,
                        !.rates = [k \in DOMAIN ratesCache.rates |-> ratesCache.rates[k]]]
    /\ UNCHANGED <<notifVars, walletVars, ratesCache, now, lastSet>>

\* GetRate without the test of the TTL
GetRateNoTTL(fromCurrency, toCurrency) ==
    LET key == RateKey(fromCurrency, toCurrency) IN
    /\ got' = IF key \in DOMAIN ratesCache.rates
              THEN [NoResult EXCEPT !.op = "GetRate", !.key = key, !.valid = TRUE,
                                    !.rate = ratesCache.rates[key]]
              ELSE [NoResult EXCEPT !.op = "GetRate", !.key = key]
    /\ UNCHANGED <<notifVars, walletVars, ratesCache, now, lastSet>>

\* the process builds its cache: NewRatesCache(cfg.Cache.RatesTTL)
ConstructCache ==
    /\ \E ttl \in TTLs : ratesCache' = NewRatesCache(ttl)
    /\ got' = NoResult
    /\ lastSet' = NeverSet
    /\ UNCHANGED <<notifVars, walletVars, now>>

\* c.rates = rates; c.lastUp = time.Now(): the cache keeps the caller's map itself
Set(rates) ==
    /\ ratesCache' = [ratesCache EXCEPT !.rates = rates, !.lastUp = now]
    /\ got' = [NoResult EXCEPT !.op = "Set", !.rates = rates, !.alias = TRUE]
    /\ lastSet' = [set |-> TRUE, m |-> rates, at |-> now]
    /\ UNCHANGED <<notifVars, walletVars, now>>

\* (nil, false) once time.Since(c.lastUp) > c.ttl, else a copy of the map and true
Get ==
    /\ got' = IF Since(ratesCache.lastUp) > ratesCache.ttl
              THEN [NoResult EXCEPT !.op = "Get"]
              ELSE [NoResult EXCEPT !.op = "Get", !.valid = TRUE,
                        !.rates = [k \in DOMAIN ratesCache.rates |-> ratesCache.rates[k]]]
    /\ UNCHANGED <<notifVars, walletVars, ratesCache, now, lastSet>>

\* (0, false) once the TTL has passed, else rate, exists := c.rates[key]
GetRate(fromCurrency, toCurrency) ==
    LET key == RateKey(fromCurrency, toCurrency) IN
    /\ got' = IF Since(ratesCache.lastUp) > ratesCache.ttl
              THEN [NoResult EXCEPT !.op = "GetRate", !.key = key]
              ELSE IF key \in DOMAIN ratesCache.rates
              THEN [NoResult EXCEPT !.op = "GetRate", !.key = key, !.valid = TRUE,
                                    !.rate = ratesCache.rates[key]]
              ELSE [NoResult EXCEPT !.op = "GetRate", !.key = key]
    /\ UNCHANGED <<notifVars, walletVars, ratesCache, now, lastSet>>

\* c.rates = make(map[string]float32); c.lastUp = time.Time{}
Clear ==
    /\ ratesCache' = [ratesCache EXCEPT !.rates = EmptyRates, !.lastUp = ZeroTime]
    /\ got' = NoResult
    /\ lastSet' = NeverSet
    /\ UNCHANGED <<notifVars, walletVars, now>>

\* time passes
Tick ==
    /\ now < MaxNow
    /\ now' = now + 1
    /\ got' = NoResult
    /\ UNCHANGED <<notifVars, walletVars, ratesCache, lastSet>>

NextCache ==
    \/ ConstructCache
    \/ \E rates \in RateMaps : Set(rates)
    \/ Get
    \/ \E f \in Currencies, t \in Currencies : GetRate(f, t)
    \/ Clear
    \/ Tick

\* the cache on its own, under any order of its operations and any TTL
SpecCache == Init /\ [][NextCache]_vars

\* GetExchangeRates that answers a failed call of the exchanger with the expired table
GetExchangeRatesServeStale ==
    IF ~(Since(ratesCache.lastUp) > ratesCache.ttl)
    THEN /\ got' = [NoResult EXCEPT !.op = "GetExchangeRates", !.valid = TRUE,
                                    !.rates = ratesCache.rates]
         /\ UNCHANGED <<notifVars, walletVars, ratesCache, now, lastSet>>
    ELSE \/ \E rates \in RateMaps :
                /\ ratesCache' = [ratesCache EXCEPT !.rates = rates, !.lastUp = now]
                /\ lastSet' = [set |-> TRUE, m |-> rates, at |-> now]
                /\ got' = [NoResult EXCEPT !.op = "GetExchangeRates", !.valid = TRUE,
                                           !.rates = rates, !.alias = TRUE, !.rpc = TRUE]
                /\ UNCHANGED <<notifVars, walletVars, now>>
         \/ /\ got' = [NoResult EXCEPT !.op = "GetExchangeRates", !.valid = TRUE,
                                       !.rates = ratesCache.rates, !.rpc = TRUE]
            /\ UNCHANGED <<notifVars, walletVars, ratesCache, now, lastSet>>

\* WalletService.GetExchangeRates: the copy Get hands out when it reports the cache valid;
\* else one call of the exchanger service (rpc) for the full table, whose error is
\* returned, and on success s.ratesCache.Set(rates) and the same map returned
GetExchangeRates ==
    IF ~(Since(ratesCache.lastUp) > ratesCache.ttl)
    THEN /\ got' = [NoResult EXCEPT !.op = "GetExchangeRates", !.valid = TRUE,
                                    !.rates = ratesCache.rates]
         /\ UNCHANGED <<notifVars, walletVars, ratesCache, now, lastSet>>
    ELSE \/ \E rates \in RateMaps :
                /\ ratesCache' = [ratesCache EXCEPT !.rates = rates, !.lastUp = now]
                /\ lastSet' = [set |-> TRUE, m |-> rates, at |-> now]
                /\ got' = [NoResult EXCEPT !.op = "GetExchangeRates", !.valid = TRUE,
                                           !.rates = rates, !.alias = TRUE, !.rpc = TRUE]
                /\ UNCHANGED <<notifVars, walletVars, now>>
         \/ /\ got' = [NoResult EXCEPT !.op = "GetExchangeRates", !.rpc = TRUE]
            /\ UNCHANGED <<notifVars, walletVars, ratesCache, now, lastSet>>

\* one client's exchanges, one after the other, while the rate table is asked for and
\* time passes
NextRates ==
    \/ GetExchangeRates
    \/ Tick
    \/ ExchangeCurrencyAlone(1)
    \/ NextCall(1)

SpecRates == Init /\ [][NextRates]_vars

\* ---------------------------------------------------------------- properties
Rows(r) == {t \in transactions : t.rid = r}
Messages(r) == {m \in published : m.rid = r}
Key(r) == <<req[r].user, req[r].from>>
KeyTo(r) == <<req[r].user, req[r].to>>

\* C1: in every reachable state every balance row of every user holds an amount >= 0.
NonNegativeBalances == \A k \in DOMAIN balances : balances[k] >= 0

\* C1 witness: a withdrawal or an exchange has taken a balance down to 0
BalanceDrained ==
    \E r \in Req : /\ req[r].op \in {"withdraw", "exchange"}
                   /\ req[r].applied
                   /\ balances[Key(r)] = 0

\* C2: when NConc concurrent Withdraw calls of 1 unit run against one balance holding
\* InitBal < NConc units, exactly InitBal of them succeed, the others fail with
\* insufficient funds, and the balance ends at 0.
AllWithdrawOne ==
    \A r \in Req : /\ req[r].op = "withdraw" /\ req[r].pc = "done"
                   /\ req[r].user = 1 /\ req[r].from = "USD" /\ req[r].amount = 1
                   /\ req[r].result \in {"ok", "insufficient_funds"}

ConcurrentWithdrawalsExact ==
    (InitBal < NConc /\ AllWithdrawOne) =>
        /\ Cardinality({r \in Req : req[r].result = "ok"}) = InitBal
        /\ Cardinality({r \in Req : req[r].result = "insufficient_funds"}) = NConc - InitBal
        /\ balances[<<1, "USD">>] = 0

\* call r cannot go on before call q releases a row lock
WaitsFor(r, q) ==
    /\ q # r
    /\ \/ req[r].pc = "ex_select" /\ rowLock[Key(r)] = q
       \/ req[r].pc = "ex_credit" /\ HasRow(req[r].user, req[r].to) /\ rowLock[KeyTo(r)] = q
       \/ req[r].pc \in {"dep_update", "wd_update"} /\ rowLock[Key(r)] = q

\* C3: two concurrent exchanges of one user in opposite directions never reach a state
\* where each transaction waits on a row lock the other holds.
ExchangesNeverDeadlock ==
    \A r \in Req, q \in Req : ~(WaitsFor(r, q) /\ WaitsFor(q, r))

\* C4: a successful exchange takes exactly a off the source balance, adds a * rate
\* (at the store's scale) to the target balance, leaves every other balance row as it
\* was and adds exactly one Transaction row (exchange, completed, that rate).
ExchangeEffect ==
    [][\A r \in Req :
        (req[r].pc = "ex_commit" /\ req'[r].pc = "ex_notify") =>
            LET x == ExchangedAmount(req[r].rate, req[r].amount)
                row == TxRow(r, req[r], TransactionTypeExchange, x)
            IN /\ balances'[Key(r)] = balances[Key(r)] - req[r].amount
               /\ KeyTo(r) \in DOMAIN balances'
               /\ KeyTo(r) \in DOMAIN balances
               /\ balances'[KeyTo(r)] = balances[KeyTo(r)] + x
               /\ \A k \in DOMAIN balances' \ {Key(r), KeyTo(r)} :
                     k \in DOMAIN balances /\ balances'[k] = balances[k]
               /\ row \notin transactions
               /\ transactions' = transactions \cup {row}
               /\ row.status = TransactionStatusCompleted
    ]_vars

\* C5: ExecuteExchange is atomic: no statement of the transaction but the commit
\* changes a stored balance or adds a Transaction row, a call that returns an error
\* has changed nothing, and the commit makes every buffered write and the
\* Transaction row visible in one step.
ExchangeAtomic ==
    [][\A r \in Req :
        (req[r].op = "exchange" /\ req'[r].pc # req[r].pc
            /\ req[r].pc \in {"ex_select", "ex_debit", "ex_credit", "ex_insert", "ex_commit"}) =>
            IF req'[r].pc = "ex_notify"
            THEN /\ req[r].pc = "ex_commit"
                 /\ \A c \in DOMAIN req[r].w : balances'[<<req[r].user, c>>] = req[r].w[c]
                 /\ req[r].from \in DOMAIN req[r].w
                 /\ Cardinality(Rows(r)') = 1
                 /\ Rows(r) = {}
            ELSE /\ balances' = balances
                 /\ transactions' = transactions
                 /\ (req'[r].pc = "done" =>
                        /\ req'[r].result \in {"store_error", "insufficient_funds",
                                              "serialization_failure"}
                        /\ ~req'[r].applied
                        /\ Rows(r)' = {})
    ]_vars

\* C5 witness: an exchange has failed at its commit, after the debit, the credit
\* and the Transaction row were written inside the transaction
ExchangeFailedAtCommit ==
    \E r \in Req : /\ req[r].op = "exchange" /\ req[r].pc = "done"
                   /\ req[r].at = "ex_commit" /\ req[r].result = "store_error"
                   /\ balances[Key(r)] = InitBal /\ Rows(r) = {}

\* C6: a Deposit of a > 0 that returns success has raised the balance of its currency
\* by exactly a over the amount stored before its write, has left every other balance
\* row as it was, and has exactly one Transaction row (deposit, completed).
DepositEffect ==
    [][\A r \in Req :
        /\ (req[r].pc = "dep_update" /\ req'[r].pc = "dep_tx") =>
              /\ balances'[Key(r)] = balances[Key(r)] + req[r].amount
              /\ \A k \in DOMAIN balances' \ {Key(r)} :
                    k \in DOMAIN balances /\ balances'[k] = balances[k]
        /\ (req[r].pc = "dep_balances" /\ req'[r].pc = "done" /\ req'[r].result = "ok") =>
              /\ Cardinality(Rows(r)') = 1
              /\ \A t \in Rows(r)' : /\ t.type = TransactionTypeDeposit
                                      /\ t.status = TransactionStatusCompleted
    ]_vars

\* C7: the write of a successful Withdraw of a finds a balance of at least a, takes
\* exactly a off it and leaves every other balance row as it was.
WithdrawEffect ==
    [][\A r \in Req :
        (req[r].pc = "wd_update" /\ req'[r].pc = "wd_tx") =>
            /\ req[r].amount <= balances[Key(r)]
            /\ balances'[Key(r)] = balances[Key(r)] - req[r].amount
            /\ \A k \in DOMAIN balances' \ {Key(r)} :
                  k \in DOMAIN balances /\ balances'[k] = balances[k]
    ]_vars

\* C8: a Withdraw or an ExchangeCurrency that reads a source balance smaller than its
\* amount ends at that statement, with the insufficient-funds error when the read
\* itself succeeded, and has changed no balance, added no Transaction row and
\* published no event.
InsufficientFundsRejected ==
    [][\A r \in Req :
        (/\ req[r].pc \in {"wd_get", "ex_select"}
         /\ req'[r].pc # req[r].pc
         /\ HasRow(req[r].user, req[r].from)
         /\ req[r].amount > balances[Key(r)]) =>
            /\ req'[r].pc = "done"
            /\ req'[r].result \in {"insufficient_funds", "store_error"}
            /\ ~req'[r].applied
            /\ balances' = balances
            /\ transactions' = transactions
            /\ published' = published
            /\ rowLock' = rowLock
            /\ Rows(r)' = {} /\ Messages(r)' = {}
    ]_vars

\* C8 witness: a Withdraw and an ExchangeCurrency of more than the balance have both
\* ended with the insufficient-funds error
InsufficientFundsReturned ==
    \E r \in Req, q \in Req :
        /\ req[r].op = "withdraw" /\ req[q].op = "exchange"
        /\ \A x \in {r, q} : /\ req[x].pc = "done"
                              /\ req[x].result = "insufficient_funds"
                              /\ req[x].amount > balances[Key(x)]
        /\ req[r].at = "wd_get" /\ req[q].at = "ex_select"
        /\ transactions = {} /\ published = {}
        /\ \A k \in DOMAIN balances : balances[k] = InitBal

\* what the balance change of call r adds to balance row k
Delta(r, k) ==
    IF ~req[r].applied THEN 0
    ELSE IF req[r].op = "deposit" /\ k = Key(r) THEN req[r].amount
    ELSE IF req[r].op = "withdraw" /\ k = Key(r) THEN 0 - req[r].amount
    ELSE IF req[r].op = "exchange" /\ k = Key(r) THEN 0 - req[r].amount
    ELSE IF req[r].op = "exchange" /\ k = KeyTo(r)
         THEN ExchangedAmount(req[r].rate, req[r].amount)
    ELSE 0

RECURSIVE SumDelta(_, _)
SumDelta(S, k) ==
    IF S = {} THEN 0
    ELSE LET r == CHOOSE x \in S : TRUE IN Delta(r, k) + SumDelta(S \ {r}, k)

\* C9: when the concurrent calls have all returned, every balance row holds what a
\* sequential execution of the calls that changed a balance leaves: its first amount
\* plus the sum of their changes (no update is lost).
NoLostUpdate ==
    (\A r \in Req : req[r].pc = "done") =>
        \A k \in DOMAIN balances :
            balances[k] = (IF k[1] = 1 THEN InitBal ELSE 0) + SumDelta(Req, k)

\* C10: a Deposit or Withdraw that has returned has either persisted both its balance
\* update and its Transaction row, or neither.
NoPartialWrites ==
    \A r \in Req :
        (req[r].op \in {"deposit", "withdraw"} /\ req[r].pc = "done") =>
            (req[r].applied <=> Rows(r) # {})

\* C11: an ExchangeCurrency call returns a serialization failure of the store to its
\* caller only after it has run the exchange three times (the first run and 2 retries).
SerializationFailureRetried ==
    \A r \in Req :
        (req[r].pc = "done" /\ req[r].result = "serialization_failure") =>
            req[r].tries = 1 + 2

\* C12: every user whose RegisterUser call has returned (with any outcome) has a
\* balance row for each of USD, EUR and RUB.
UserHasAllBalances ==
    \A u \in users :
        (\A r \in Req : ~(req[r].pc = "reg_balance" /\ req[r].user = u.id)) =>
            \A c \in Currencies : HasRow(u.id, c)

UniqueUsers ==
    \A u \in users, v \in users :
        u # v => (u.username # v.username /\ u.email # v.email /\ u.id # v.id)

\* C13: usernames and emails are unique in every reachable state, also when
\* RegisterUser calls run concurrently, and a RegisterUser whose INSERT finds its
\* username or email taken returns an error and adds no user and no balance row.
UniqueRegistration ==
    /\ []UniqueUsers
    /\ [][\A r \in Req :
            (/\ req[r].pc = "reg_create" /\ req'[r].pc # req[r].pc
             /\ \E u \in users : u.username = req[r].name \/ u.email = req[r].email) =>
                /\ req'[r].pc = "done"
                /\ req'[r].result = "store_error"
                /\ users' = users
                /\ balances' = balances
       ]_vars

\* C13 witness: of two concurrent registrations of one new username that both passed
\* the look-ups, one inserted the user and the other was refused by the store
DuplicateRegistrationRefused ==
    \E r \in Req, q \in Req :
        /\ r # q
        /\ req[r].op = "register" /\ req[q].op = "register"
        /\ req[r].name = "bob" /\ req[q].name = "bob"
        /\ req[r].pc = "done" /\ req[r].at = "reg_create" /\ req[r].result = "store_error"
        /\ req[q].pc = "done" /\ req[q].result = "ok"
        /\ userSeq = 3
        /\ Cardinality(users) = 2

\* C14: AuthenticateUser returns the user only when a user of that name exists and the
\* password matches its stored hash; an unknown username and a wrong password end the
\* call with one and the same error.
AuthenticationOpaque ==
    [][\A r \in Req :
        (req[r].op = "authenticate" /\ req'[r].pc = "done" /\ req[r].pc # "done") =>
            LET known == {u \in users : u.username = req[r].name}
                match == {u \in known : CompareHashAndPassword(u.hash, req[r].pw)}
            IN /\ req'[r].result \in {"ok", "invalid username or password"}
               /\ req'[r].result = "ok" =>
                    \E u \in match : req'[r].user = u.id
               /\ (req[r].pc = "auth_get" /\ known = {}) =>
                    req'[r].result = "invalid username or password"
               /\ (req[r].pc = "auth_compare" /\ match = {}) =>
                    req'[r].result = "invalid username or password"
    ]_vars

\* C14 witness: a login with an unknown username and a login with a wrong password
\* have both returned, with the same error
BothLoginsRefused ==
    \E r \in Req, q \in Req :
        /\ req[r].op = "authenticate" /\ req[q].op = "authenticate"
        /\ req[r].pc = "done" /\ req[q].pc = "done"
        /\ req[r].name = "bob" /\ req[r].at = "auth_get"
        /\ \A u \in users : u.username # "bob"
        /\ req[q].name = "alice" /\ req[q].at = "auth_compare" /\ req[q].pw = "pw2"
        /\ req[r].result = req[q].result
        /\ req[r].result # "ok"

\* C15: a Deposit, Withdraw or ExchangeCurrency with amount <= 0, and an
\* ExchangeCurrency with from = to, returns an error at its entry: before any statement
\* on the store, before the rate look-up and before any event, with nothing changed.
ValidationPrecedesEffects ==
    [][\A r \in Req :
        (/\ req[r].pc = "idle" /\ req'[r].pc # "idle"
         /\ req'[r].op \in {"deposit", "withdraw", "exchange"}
         /\ \/ req'[r].amount <= 0
            \/ req'[r].op = "exchange" /\ req'[r].from = req'[r].to) =>
            /\ req'[r].pc = "done"
            /\ req'[r].at = "idle"
            /\ req'[r].result =
                  (IF req'[r].amount <= 0 THEN "invalid_amount" ELSE "same_currency")
            /\ req'[r].tries = 0
            /\ ~req'[r].applied
            /\ UNCHANGED <<users, balances, transactions, rowLock, published>>
    ]_vars

\* C15 witness: a deposit of 0 and an exchange of a currency into itself have been
\* refused and the tables are as they were
InvalidArgumentsRefused ==
    \E r \in Req, q \in Req :
        /\ req[r].op = "deposit" /\ req[r].pc = "done" /\ req[r].amount = 0
        /\ req[r].result = "invalid_amount"
        /\ req[q].op = "exchange" /\ req[q].pc = "done" /\ req[q].amount > 0
        /\ req[q].from = req[q].to /\ req[q].result = "same_currency"
        /\ transactions = {} /\ published = {}
        /\ \A k \in DOMAIN balances : balances[k] = InitBal

\* call record rec names a currency outside the supported set, with valid other arguments
UnsupportedCurrencyCall(rec) ==
    /\ rec.op \in {"deposit", "withdraw", "exchange"}
    /\ rec.amount > 0
    /\ rec.from # rec.to \/ rec.op # "exchange"
    /\ rec.from \notin Currencies \/ rec.to \notin Currencies

\* C16: a Deposit, Withdraw or ExchangeCurrency called with a currency outside
\* {USD, EUR, RUB} changes no balance, adds no Transaction row, publishes no event and
\* returns the unsupported-currency error.
UnsupportedCurrencyRejected ==
    [][\A r \in Req :
        (UnsupportedCurrencyCall(req'[r]) /\ req'[r].pc # req[r].pc) =>
            /\ balances' = balances
            /\ transactions' = transactions
            /\ published' = published
            /\ req'[r].pc = "done" => req'[r].result = "unsupported_currency"
    ]_vars

\* C17: GetUserBalances returns balances only for a user that has a row for each of
\* USD, EUR and RUB; for a user with a row missing it returns an error.
MissingRowIsError ==
    [][\A r \in Req :
        (req[r].pc = "bal_get" /\ req'[r].pc = "done"
            /\ \E c \in Currencies : ~HasRow(req[r].user, c)) =>
                /\ req'[r].result # "ok"
                /\ req'[r].ret = NilBalances
    ]_vars

\* C18: after Set(m), a Get at a time t with t - last_refresh <= TTL returns a map equal
\* to m with valid = true, and a Get at a time with t - last_refresh > TTL returns
\* valid = false.
CacheRoundTrip ==
    (got.op = "Get" /\ lastSet.set) =>
        /\ got.valid <=> (now - lastSet.at <= ratesCache.ttl)
        /\ got.valid => got.rates = lastSet.m

\* C18 witness: a Get at the very end of the TTL has returned the non-empty map that
\* was Set
GetAtEndOfTTL ==
    /\ got.op = "Get" /\ got.valid /\ lastSet.set
    /\ DOMAIN got.rates = CacheKeys
    /\ now - lastSet.at = ratesCache.ttl
    /\ ratesCache.ttl > 0

\* C19: GetRate(from, to) returns valid = true exactly when the cache is within its TTL
\* since the last Set and the key FROM_TO is in the map that was Set, and then returns
\* the rate of that key; after the TTL it returns valid = false also for a key present.
GetRateValidity ==
    got.op = "GetRate" =>
        /\ got.valid <=> /\ lastSet.set
                         /\ now - lastSet.at <= ratesCache.ttl
                         /\ got.key \in DOMAIN lastSet.m
        /\ got.valid => got.rate = lastSet.m[got.key]

\* C19 witness: a GetRate of a pair that is in the map has returned valid = false
\* after the TTL
GetRateExpiredPresent ==
    /\ got.op = "GetRate" /\ ~got.valid
    /\ lastSet.set /\ got.key \in DOMAIN ratesCache.rates
    /\ now - lastSet.at > ratesCache.ttl

\* C20: after Clear, and for a cache that was never Set, Get and GetRate return
\* valid = false until the next Set, whatever the TTL.
ClearedCacheInvalid ==
    (got.op \in {"Get", "GetRate"} /\ ~lastSet.set) => ~got.valid

\* the pair of call r is within the TTL of the last Set and in the map that was Set
CacheHolds(r) ==
    /\ lastSet.set
    /\ now - lastSet.at <= ratesCache.ttl
    /\ RateKey(req[r].from, req[r].to) \in DOMAIN lastSet.m

\* C21: ExchangeCurrency takes its rate from the cache, with no call of the rate client,
\* exactly when the cache holds a valid rate of the pair, and then uses that rate; else
\* it calls the rate client, and when that call fails the exchange fails with no
\* balance changed.
CacheBeforeClient ==
    [][\A r \in Req :
        (req[r].pc = "ex_rate" /\ req'[r].pc # "ex_rate") =>
            /\ req'[r].rpc <=> ~CacheHolds(r)
            /\ CacheHolds(r) =>
                  /\ req'[r].pc = "ex_select"
                  /\ req'[r].rate = lastSet.m[RateKey(req[r].from, req[r].to)]
            /\ req'[r].pc = "done" =>
                  /\ req'[r].result = "rate_error"
                  /\ ~req'[r].applied
                  /\ balances' = balances /\ transactions' = transactions
    ]_vars

\* C21 witness: an exchange has been carried out at the rate of the cache, with no call
\* of the rate client
ExchangedAtCachedRate ==
    \E r \in Req :
        /\ req[r].op = "exchange" /\ req[r].pc = "done" /\ req[r].result = "ok"
        /\ req[r].applied /\ ~req[r].rpc
        /\ lastSet.set
        /\ req[r].rate = lastSet.m[RateKey(req[r].from, req[r].to)]

\* C22: when ExchangeCurrency misses the cache and the rate client returns the rate of
\* the pair, the cache is refreshed: it then holds a valid rate of that pair.
MissRefreshesCache ==
    [][\A r \in Req :
        (req[r].pc = "ex_rate" /\ req'[r].pc = "ex_select" /\ req'[r].rpc) =>
            /\ RateKey(req[r].from, req[r].to) \in DOMAIN ratesCache'.rates
            /\ ratesCache'.lastUp = now
    ]_vars

\* ---------------------------------------------------------------- C25
NotifySteps == {"dep_notify", "wd_notify", "ex_notify"}

AfterNotify(pc) ==
    IF pc = "dep_notify" THEN "dep_balances"
    ELSE IF pc = "wd_notify" THEN "wd_balances" ELSE "ex_balances"

\* the publisher was called with an amount at or above the threshold and wrote nothing
PublishFailed(r) ==
    /\ req[r].op \in {"deposit", "withdraw", "exchange"}
    /\ req[r].applied
    /\ req[r].amount >= threshold
    /\ req[r].pc \in {"dep_balances", "wd_balances", "ex_balances", "done"}
    /\ Messages(r) = {}

\* C25: a publisher failure never affects the money movement.  Whatever
\* SendLargeTransferNotification returns, the call goes on to its last step with
\* the stored balances and the Transaction rows as they were, and no call ever
\* ends with the publisher's error.
PublisherFailureIgnored ==
    [][\A r \in Req :
        (req[r].pc \in NotifySteps /\ req'[r].pc # req[r].pc) =>
            /\ req'[r].pc = AfterNotify(req[r].pc)
            /\ req'[r].applied = req[r].applied
            /\ req'[r].result = req[r].result
            /\ balances' = balances
            /\ transactions' = transactions
    ]_vars

\* a call whose notification failed has returned success, its row and its balance kept
SuccessAfterPublishFailure ==
    \E r \in Req :
        /\ PublishFailed(r)
        /\ req[r].pc = "done"
        /\ req[r].result = "ok"
        /\ req[r].op = "deposit"
        /\ Rows(r) # {}
        /\ balances[Key(r)] = InitBal + req[r].amount

\* ---------------------------------------------------------------- producer and topic
Senders == 1..2
SentAmounts == 1..MaxAmount

\* <<partition, offset>> of the messages on the topic
Offsets == UNION {{<<p, o>> : o \in 0..(Len(log[p]) - 1)} : p \in Partitions}

\* the payload of the message at <<partition, offset>>
Value(m) == log[m[1]][m[2] + 1].value

\* len(msg.Key) + len(msg.Value); the messages of the senders and amounts have one length
Size(msg) == 1

\* kafka.LeastBytes.Balance: the first partition with the fewest bytes written so far
LeastBytes ==
    CHOOSE p \in Partitions :
        \A q \in Partitions : written[p] < written[q] \/ (written[p] = written[q] /\ p <= q)

\* Writer.WriteMessages: the balancer picks the partition and the message is appended
\* to it; a call that returns an error (writer closed, context done) has written nothing
WriteMessages(msg, ok) ==
    IF ok
    THEN /\ written' = [written EXCEPT ![LeastBytes] = @ + Size(msg)]
         /\ log' = [log EXCEPT ![LeastBytes] = Append(@, msg)]
    ELSE UNCHANGED <<log, written>>

\* a producer without the threshold test
BelowThresholdNever(amount) == FALSE

\* if amount < p.threshold { return nil }
BelowThreshold(amount) == amount < threshold

\* Producer.SendLargeTransferNotification(userID, ..., amount), on its own
SendNotification(userID, amount) ==
    /\ Cardinality(Offsets) < MaxLog
    /\ \E ok \in BOOLEAN :
        /\ lastSend' = [flip |-> ~lastSend.flip, amount |-> amount, err |-> ~ok]
        /\ IF BelowThreshold(amount)
           THEN ok /\ UNCHANGED <<log, written>>
           ELSE WriteMessages([key |-> MessageKey(userID),
                               value |-> Marshal(userID, amount)], ok)
    /\ UNCHANGED <<committed, position, messages, worker, store, messagesFailed,
                   messagesProcessed, retryAttempts, crashes, ctxDone, reader,
                   walletVars, cacheVars>>

\* another client of the topic writes a payload that is not JSON
ForeignWrite(p) ==
    /\ Cardinality(Offsets) < MaxLog
    /\ log' = [log EXCEPT ![p] = Append(@, [key |-> "", value |-> Garbage])]
    /\ UNCHANGED <<written, lastSend, committed, position, messages, worker, store,
                   messagesFailed, messagesProcessed, retryAttempts, crashes, ctxDone,
                   reader, walletVars, cacheVars>>

\* ---------------------------------------------------------------- consumer
\* parseMessage accepting every payload
parseMessageFailsNever(value) == FALSE

\* parseMessage: json.Unmarshal returns an error
parseMessageFails(value) == ~value.json

\* the set of the messages of a batch
BatchSet(batch) == {batch[i] : i \in 1..Len(batch)}

\* Reader.CommitMessages(msgs...): for each partition named, the highest offset plus one
\* becomes the group's committed offset; the broker accepts the commit
CommitMessages(msgs) ==
    [p \in Partitions |->
        LET offs == {m[2] : m \in {x \in msgs : x[1] = p}} IN
        IF offs = {} THEN committed[p]
        ELSE (CHOOSE o \in offs : \A o2 \in offs : o2 <= o) + 1]

\* parseMessage: the LargeTransfer of a payload
parseMessage(value) == [user_id |-> value.user_id, amount |-> value.amount]

\* messages := make(chan kafka.Message, c.batchSize*2)
ChannelCap == batchSize * 2

\* a worker that flushes only a batch longer than batchSize
BatchFullLate(n) == n > batchSize

\* if len(batch) >= c.batchSize
BatchFull(n) == n >= batchSize

\* the worker after flushBatch has returned: in its select with an empty batch, or
\* returned when the flush was the one before the return
AfterFlush(wk) == IF wk.final THEN ExitedWorker ELSE IdleWorker

\* processMessages before its return: if len(batch) > 0 { c.flushBatch(ctx, ...) }; return
FinalFlush(wk) ==
    IF Len(wk.transfers) > 0
    THEN [wk EXCEPT !.pc = "flush", !.attempt = 0, !.err = FALSE, !.final = TRUE]
    ELSE ExitedWorker

\* readMessages, msg, err := c.reader.FetchMessage(ctx): the next message of a partition;
\* on a done context FetchMessage returns the context's error
FetchMessage ==
    /\ reader.pc = "fetch"
    /\ ~ctxDone
    /\ \E p \in Partitions :
        /\ position[p] < Len(log[p])
        /\ reader' = [pc |-> "send", msg |-> <<p, position[p]>>]
        /\ position' = [position EXCEPT ![p] = @ + 1]
    /\ UNCHANGED <<log, written, lastSend, committed, messages, worker, store,
                   messagesFailed, messagesProcessed, retryAttempts, crashes, ctxDone,
                   walletVars, cacheVars>>

\* readMessages, messages <- msg: a send that waits for room in the channel and for
\* nothing else
sendMessage ==
    /\ reader.pc = "send"
    /\ Len(messages) < ChannelCap
    /\ messages' = Append(messages, reader.msg)
    /\ reader' = IdleReader
    /\ UNCHANGED <<log, written, lastSend, committed, position, worker, store,
                   messagesFailed, messagesProcessed, retryAttempts, crashes, ctxDone,
                   walletVars, cacheVars>>

\* readMessages returns on the done context (case <-ctx.Done() or the error of
\* FetchMessage) and the deferred close(messages) of Start runs
readerDone ==
    /\ reader.pc = "fetch"
    /\ ctxDone
    /\ reader' = [pc |-> "closed", msg |-> NoMessage]
    /\ UNCHANGED <<log, written, lastSend, committed, position, messages, worker, store,
                   messagesFailed, messagesProcessed, retryAttempts, crashes, ctxDone,
                   walletVars, cacheVars>>

\* processMessages, case msg := <-messages: a payload that does not parse is counted and
\* its offset committed; any other is appended to the worker's batch, which is flushed
\* when it is full
processMessage(w) ==
    LET msg == Head(messages)
        wk == worker[w]
    IN
    /\ wk.pc = "select"
    /\ messages # <<>>
    /\ messages' = Tail(messages)
    /\ IF parseMessageFails(Value(msg))
       THEN /\ messagesFailed' = messagesFailed + 1
            /\ \/ committed' = CommitMessages({msg})
               \/ ctxDone /\ committed' = committed
            /\ worker' = worker
       ELSE /\ worker' = [worker EXCEPT ![w] =
                    [pc |-> IF BatchFull(Len(wk.transfers) + 1) THEN "flush" ELSE "select",
                     batch |-> Append(wk.batch, msg),
                     transfers |-> Append(wk.transfers, parseMessage(Value(msg))),
                     attempt |-> 0, err |-> FALSE, final |-> FALSE]]
            /\ UNCHANGED <<messagesFailed, committed>>
    /\ UNCHANGED <<log, written, lastSend, position, store, messagesProcessed,
                   retryAttempts, crashes, ctxDone, reader, walletVars, cacheVars>>

\* processMessages, case <-ticker.C: a batch that is not empty is flushed
tick(w) ==
    /\ worker[w].pc = "select"
    /\ Len(worker[w].transfers) > 0
    /\ worker' = [worker EXCEPT ![w] = [@ EXCEPT !.pc = "flush", !.attempt = 0, !.err = FALSE]]
    /\ UNCHANGED <<log, written, lastSend, committed, position, messages, store,
                   messagesFailed, messagesProcessed, retryAttempts, crashes, ctxDone,
                   reader, walletVars, cacheVars>>

\* processMessages, case <-ctx.Done(): what is left of the batch is flushed with the
\* context that is done, and the worker returns
ctxDoneCase(w) ==
    /\ worker[w].pc = "select"
    /\ ctxDone
    /\ worker' = [worker EXCEPT ![w] = FinalFlush(@)]
    /\ UNCHANGED <<log, written, lastSend, committed, position, messages, store,
                   messagesFailed, messagesProcessed, retryAttempts, crashes, ctxDone,
                   reader, walletVars, cacheVars>>

\* processMessages, case msg, ok := <-messages with !ok (the channel is closed and
\* empty): what is left of the batch is flushed and the worker returns
channelClosed(w) ==
    /\ worker[w].pc = "select"
    /\ reader.pc = "closed"
    /\ messages = <<>>
    /\ worker' = [worker EXCEPT ![w] = FinalFlush(@)]
    /\ UNCHANGED <<log, written, lastSend, committed, position, messages, store,
                   messagesFailed, messagesProcessed, retryAttempts, crashes, ctxDone,
                   reader, walletVars, cacheVars>>

\* flushBatch, one turn of the loop: SaveTransferBatch (InsertMany) inserts the batch and
\* the loop is left, or fails and the attempt is counted
SaveTransferBatch(w) ==
    LET wk == worker[w] IN
    /\ wk.pc = "flush"
    /\ wk.attempt < retryAttempts
    /\ \/ /\ store' = store \o wk.batch
          /\ worker' = [worker EXCEPT ![w] = [wk EXCEPT !.pc = "commit", !.err = FALSE]]
       \/ /\ store' = store
          /\ worker' = [worker EXCEPT ![w] =
                            [wk EXCEPT !.attempt = wk.attempt + 1, !.err = TRUE]]
    /\ UNCHANGED <<log, written, lastSend, committed, position, messages, messagesFailed,
                   messagesProcessed, retryAttempts, crashes, ctxDone, reader,
                   walletVars, cacheVars>>

\* flushBatch after the loop with err != nil: the failure is counted and flushBatch
\* returns; the caller empties its batch or returns
flushBatchFailed(w) ==
    LET wk == worker[w] IN
    /\ wk.pc = "flush"
    /\ wk.attempt >= retryAttempts
    /\ wk.err
    /\ messagesFailed' = messagesFailed + 1
    /\ worker' = [worker EXCEPT ![w] = AfterFlush(wk)]
    /\ UNCHANGED <<log, written, lastSend, committed, position, messages, store,
                   messagesProcessed, retryAttempts, crashes, ctxDone, reader,
                   walletVars, cacheVars>>

\* flushBatch after the loop with err == nil: one CommitMessages for the whole batch,
\* the documents are counted; on a done context CommitMessages may return the context's
\* error, and flushBatch returns with nothing committed or counted; the caller empties
\* its batch or returns
flushBatchCommit(w) ==
    LET wk == worker[w] IN
    /\ \/ wk.pc = "commit"
       \/ wk.pc = "flush" /\ wk.attempt >= retryAttempts /\ ~wk.err
    /\ \/ /\ committed' = CommitMessages(BatchSet(wk.batch))
          /\ messagesProcessed' = messagesProcessed + Len(wk.transfers)
       \/ /\ ctxDone
          /\ UNCHANGED <<committed, messagesProcessed>>
    /\ worker' = [worker EXCEPT ![w] = AfterFlush(wk)]
    /\ UNCHANGED <<log, written, lastSend, position, messages, store, messagesFailed,
                   retryAttempts, crashes, ctxDone, reader, walletVars, cacheVars>>

\* the consumer process is killed and started again: a new Consumer with empty batches
\* and counters, whose reader starts at the group's committed offsets
Restart ==
    /\ crashes < MaxCrashes
    /\ crashes' = crashes + 1
    /\ worker' = [w \in WorkerIds |-> IdleWorker]
    /\ messages' = <<>>
    /\ position' = committed
    /\ messagesFailed' = 0
    /\ messagesProcessed' = 0
    /\ ctxDone' = FALSE
    /\ reader' = IdleReader
    /\ UNCHANGED <<log, written, lastSend, committed, store, retryAttempts,
                   walletVars, cacheVars>>

NextNotification ==
    \/ \E u \in Senders, a \in SentAmounts : SendNotification(u, a)
    \/ \E p \in Partitions : ForeignWrite(p)
    \/ FetchMessage
    \/ sendMessage
    \/ \E w \in WorkerIds :
        \/ processMessage(w)
        \/ tick(w)
        \/ SaveTransferBatch(w)
        \/ flushBatchFailed(w)
        \/ flushBatchCommit(w)
    \/ Restart

\* the consumer is configured with any number of retry attempts the environment names
InitNotification ==
    /\ InitService
    /\ InitTopic
    /\ retryAttempts \in RetryChoices

SpecNotification == InitNotification /\ [][NextNotification]_vars

\* ---------------------------------------------------------------- shutdown
\* main: cancel() after a signal or an error of the consumer
cancel ==
    /\ ~ctxDone
    /\ ctxDone' = TRUE
    /\ UNCHANGED <<log, written, lastSend, committed, position, messages, worker, store,
                   messagesFailed, messagesProcessed, retryAttempts, crashes, reader,
                   walletVars, cacheVars>>

\* the messages on the topic when the consumer starts: one more than the channel holds
Backlog == ChannelCap + 1

\* the messages of the backlog on partition p: the writer's LeastBytes spreads messages
\* of one size over the partitions in turn
BacklogOf(p) == Cardinality({k \in 0..(Backlog - 1) : k % NPartitions = p})

\* a consumer just started on a topic that holds a backlog of large transfers
InitShutdown ==
    /\ InitService
    /\ log = [p \in Partitions |->
                [i \in 1..BacklogOf(p) |->
                    [key |-> MessageKey(1), value |-> Marshal(1, threshold)]]]
    /\ written = [p \in Partitions |-> BacklogOf(p) * Size(Garbage)]
    /\ lastSend = NoSend
    /\ InitConsumer
    /\ retryAttempts \in RetryChoices

NextShutdown ==
    \/ FetchMessage
    \/ sendMessage
    \/ readerDone
    \/ cancel
    \/ \E w \in WorkerIds :
        \/ processMessage(w)
        \/ tick(w)
        \/ ctxDoneCase(w)
        \/ channelClosed(w)
        \/ SaveTransferBatch(w)
        \/ flushBatchFailed(w)
        \/ flushBatchCommit(w)

SpecShutdown == InitShutdown /\ [][NextShutdown]_vars

\* ---------------------------------------------------------------- C23
\* the documents of the collection
Documents == {store[i] : i \in 1..Len(store)}

\* the step appends one message with this amount to some partition
Appended(amount) ==
    \E p \in Partitions :
        /\ log' = [log EXCEPT ![p] = Append(@, log'[p][Len(log'[p])])]
        /\ Len(log'[p]) = Len(log[p]) + 1
        /\ log'[p][Len(log'[p])].value.json
        /\ log'[p][Len(log'[p])].value.amount = amount

Published == {m \in Offsets : Value(m).json}

\* C24: every message the publisher writes carries the key "user_<id>" of its
\* user, and all messages of one user are on the same partition of the topic
\* (where offsets, and so the reader, keep the order in which they were published).
KeyedPartitioning ==
    /\ \A m \in Published : log[m[1]][m[2] + 1].key = MessageKey(Value(m).user_id)
    /\ \A m, n \in Published : Value(m).user_id = Value(n).user_id => m[1] = n[1]

\* ---------------------------------------------------------------- C26
\* C26: at-least-once without loss.  In every reachable state, every message
\* below the committed offset of its partition (acknowledged) either failed to
\* parse or is a document of the store, also after a restart from the committed
\* offsets.
AcknowledgedStored ==
    \A m \in Offsets :
        m[2] < committed[m[1]] => (~Value(m).json \/ m \in Documents)

\* ---------------------------------------------------------------- C27
\* documents of one partition are in the store in the order of their offsets
StoreOrdered ==
    \A i, j \in 1..Len(store) :
        (i < j /\ store[i][1] = store[j][1]) => store[i][2] < store[j][2]

\* the messages of one partition are never in the batches of two workers
SingleWorkerPerPartition ==
    \A v, w \in WorkerIds :
        v # w => \A m \in BatchSet(worker[v].batch), n \in BatchSet(worker[w].batch) :
                    m[1] # n[1]

\* C27: within one partition the documents are inserted in the order of the log
\* (before any replay), the committed offset of a partition only grows, and the
\* messages of a partition are handled by a single worker.
PartitionOrderKept ==
    /\ [](crashes = 0 => StoreOrdered)
    /\ []SingleWorkerPerPartition
    /\ [][\A p \in Partitions : committed'[p] >= committed[p]]_vars

\* ---------------------------------------------------------------- C28
\* worker w ends a flush by committing its batch (the documents are counted after
\* the commit)
Commits(w) ==
    /\ worker[w].pc \in {"flush", "commit"}
    /\ worker'[w].pc = "select"
    /\ crashes' = crashes
    /\ messagesProcessed' # messagesProcessed

\* C28: flushBatch calls the batch insert at most R = retryAttempts times for one
\* batch, stops at the first success, then commits the offsets of all messages of
\* the batch in one commit call, and never commits them before an insert of the
\* batch has succeeded.
FlushProtocol ==
    /\ [](\A w \in WorkerIds : worker[w].attempt <= retryAttempts)
    /\ [][\A w \in WorkerIds :
            /\ (worker[w].pc = "flush" /\ worker'[w] # worker[w] /\ store' # store) =>
                    /\ worker[w].attempt < retryAttempts
                    /\ store' = store \o worker[w].batch
                    /\ worker'[w].pc = "commit"
            /\ Commits(w) =>
                    /\ worker[w].pc = "commit"
                    /\ \A m \in BatchSet(worker[w].batch) : committed'[m[1]] > m[2]
                    /\ worker'[w].batch = <<>>
       ]_vars

\* ---------------------------------------------------------------- C29
\* worker w leaves a flush all of whose attempts failed
GivesUp(w) ==
    /\ worker[w].pc = "flush"
    /\ worker[w].err
    /\ worker[w].attempt >= retryAttempts
    /\ worker'[w].pc = "select"
    /\ crashes' = crashes

\* C29: when all R insert attempts of a flush have failed, the consumer counts one
\* failure, drops the batch from the worker's accumulator and commits the offsets
\* of the batch's messages all the same.
PoisonBatchSkipped ==
    [][\A w \in WorkerIds :
        GivesUp(w) =>
            /\ messagesFailed' = messagesFailed + 1
            /\ worker'[w].batch = <<>>
            /\ \A m \in BatchSet(worker[w].batch) : committed'[m[1]] > m[2]
    ]_vars

\* ---------------------------------------------------------------- C30
\* a worker receives from the channel a message whose payload does not parse
ReceivesUnparseable ==
    /\ messages # <<>>
    /\ messages' = Tail(messages)
    /\ crashes' = crashes
    /\ ~Value(Head(messages)).json

WithinRounding(to, from, rate) ==
    LET diff == 2 * (to * rate[2] - from * rate[1]) IN
    diff <= rate[2] /\ diff > 0 - rate[2]

SuccessResults == {"ok", "ok_no_balances"}

\* C34: an event is published only after the money movement it describes has been
\* stored, at most once per call, and never by a call that returns an error.
PublishedAfterStored ==
    \A r \in Req :
        /\ Cardinality(Messages(r)) <= 1
        /\ Messages(r) # {} => req[r].applied
        /\ (Messages(r) # {} /\ req[r].pc = "done") => req[r].result \in SuccessResults

\* ---------------------------------------------------------------- C35
\* C35: a committed exchange never debits without crediting.  Whenever
\* ExecuteExchange commits, the target balance row of the user exists and is
\* increased by toAmount.
CommitCreditsTarget ==
    [][\A r \in Req :
        (req[r].pc = "ex_commit" /\ req'[r].pc = "ex_notify") =>
            /\ HasRow(req[r].user, req[r].to)
            /\ balances'[KeyTo(r)] =
                    balances[KeyTo(r)] + ExchangedAmount(req[r].rate, req[r].amount)
    ]_vars

\* ---------------------------------------------------------------- C39
\* C39: whenever ExchangeCurrency returns without error it returns a non-nil set
\* of balances (with the exchanged amount); it never reports success with the
\* balances missing.
ExchangeSuccessHasBalances ==
    \A r \in Req :
        (req[r].op = "exchange" /\ req[r].pc = "done" /\ req[r].result \in SuccessResults) =>
            /\ req[r].applied
            /\ ~req[r].ret.nil

\* ---------------------------------------------------------------- C36
\* the caller writes into the map it holds: the one it passed to Set, or the one Get or
\* GetExchangeRates returned.  A map that is the cache's own changes the cache with it.
MutateHeld(key, rate) ==
    /\ got.op \in {"Set", "Get", "GetExchangeRates"}
    /\ got.op = "Set" \/ got.valid
    /\ got' = [got EXCEPT !.rates = [k \in DOMAIN got.rates \cup {key} |->
                                        IF k = key THEN rate ELSE got.rates[k]]]
    /\ ratesCache' = IF got.alias THEN [ratesCache EXCEPT !.rates = got'.rates]
                                  ELSE ratesCache
    /\ UNCHANGED <<notifVars, walletVars, now, lastSet>>

\* the cache and GetExchangeRates with a caller that changes the maps it holds
NextAliasing ==
    \/ \E rates \in RateMaps : Set(rates)
    \/ Get
    \/ \E f \in Currencies, t \in Currencies : GetRate(f, t)
    \/ Clear
    \/ Tick
    \/ GetExchangeRates
    \/ \E key \in CacheKeys, rate \in Rates : MutateHeld(key, rate)

SpecAliasing == Init /\ [][NextAliasing]_vars

\* C36: the contents of the rate cache change only through Set and Clear.  The
\* cache's map is always the map of the last Set, or empty after Clear or
\* construction, whatever callers do with the map they passed to Set or with a
\* map they were handed by Get or GetExchangeRates.
CacheChangedOnlyBySetAndClear == ratesCache.rates = lastSet.m

\* ---------------------------------------------------------------- C37
\* the table of the last Set is still within the TTL
TableValid == lastSet.set /\ now - lastSet.at <= ratesCache.ttl

\* the step is a call of GetExchangeRates
GetExchangeRatesReturns ==
    /\ got'.op = "GetExchangeRates"
    /\ got' # got \/ ratesCache' # ratesCache

FairShutdown ==
    /\ WF_vars(FetchMessage \/ sendMessage \/ readerDone)
    /\ \A w \in WorkerIds :
        WF_vars(processMessage(w) \/ tick(w) \/ ctxDoneCase(w) \/ channelClosed(w)
                    \/ SaveTransferBatch(w) \/ flushBatchFailed(w) \/ flushBatchCommit(w))

FairSpecShutdown == SpecShutdown /\ FairShutdown

\* every worker has returned, so wg.Wait() and with it Consumer.Start return
WorkersExited == \A w \in WorkerIds : worker[w].pc = "exited"

\* C38: once the context is cancelled, every worker returns (Consumer.Start returns) and
\* the goroutine of readMessages returns and closes the channel: it does not stay
\* blocked in its send to the channel after the workers have stopped receiving
ShutdownTerminates == ctxDone ~> (WorkersExited /\ reader.pc = "closed")

\* C31: a worker's batch never holds more than batchSize transfers; its list of
\* transfers and its list of kafka messages have the same length and the transfer at
\* each position is the parsed payload of the message at that position; the channel
\* never holds more than 2 * batchSize messages; a batch that reaches batchSize is
\* flushed at once, every flush is of a batch that is not empty (full, or left as it was
\* by the ticker, the done context or the closed channel), and a worker leaves its select
\* for its return without a flush only with an empty batch
BatchAssemblyBounds ==
    /\ [](\A w \in WorkerIds :
            LET wk == worker[w] IN
            /\ Len(wk.transfers) <= batchSize
            /\ Len(wk.transfers) = Len(wk.batch)
            /\ \A i \in 1..Len(wk.batch) : wk.transfers[i] = parseMessage(Value(wk.batch[i]))
            /\ wk.pc = "select" => Len(wk.transfers) < batchSize)
    /\ [](Len(messages) <= batchSize * 2)
    /\ [][\A w \in WorkerIds :
            /\ (worker[w].pc = "select" /\ worker'[w].pc = "flush") =>
                    /\ Len(worker'[w].transfers) > 0
                    /\ \/ Len(worker'[w].transfers) = batchSize
                       \/ worker'[w].transfers = worker[w].transfers
            /\ (worker[w].pc = "select" /\ worker'[w].pc = "exited") =>
                    /\ ctxDone \/ (reader.pc = "closed" /\ messages = <<>>)
                    /\ worker[w].transfers = <<>>
            /\ (worker[w].pc = "select" /\ worker'[w].pc = "flush" /\ worker'[w].final) =>
                    ctxDone \/ (reader.pc = "closed" /\ messages = <<>>)]_vars

\* a worker flushes what is left of its batch on the done context while the channel is
\* full
FinalFlushWithFullChannel ==
    \E w \in WorkerIds :
        /\ worker[w].pc = "flush"
        /\ worker[w].final
        /\ Len(worker[w].transfers) = 1
        /\ Len(messages) = batchSize * 2

\* C32: a worker that leaves on the done context or the closed channel with a batch that
\* is not empty returns only after the transfers of that batch are documents of the
\* collection and their offsets are committed
FinalFlushStored ==
    [][\A w \in WorkerIds :
        (worker[w].final /\ worker'[w].pc = "exited") =>
            /\ BatchSet(worker[w].batch) \subseteq Documents'
            /\ \A m \in BatchSet(worker[w].batch) : committed'[m[1]] > m[2]]_vars

====
